---- MODULE Spec2Model ----
(***************************************************************************)
(* Model of src/App.jsx: a React chat component on top of Firebase auth    *)
(* and a Firestore collection.  The component state (useState slices), the *)
(* two subscriptions, the in-flight sign-in and addDoc promises and the    *)
(* browser's localStorage are the state; every effect, callback and event  *)
(* handler of the component is one action.                                 *)
(***************************************************************************)
EXTENDS Integers, Sequences, FiniteSets, TLC

\* ------------------------------------------------------------------ bounds
MaxLen     == 1    \* longest text the message input holds
MaxTs      == 1    \* largest timestamp (milliseconds) a record carries
MaxPending == 2    \* addDoc calls that are in flight at the same time

\* ------------------------------------------------------------ value domains
Null    == "<null>"                 \* JavaScript null / undefined
Chars   == {" ", "a"}               \* one whitespace and one other character
UIDs    == {"u1", "u2"}             \* uids the auth service hands out
Names   == {"", "ann"}              \* what the user types into the name input
TokenUid == "u1"                   \* the user __initial_auth_token is issued for
DocIds  == {"d1", "d2"}             \* ids of documents in the collection
Configs == {"undefined", "empty", "malformed", "valid"}   \* __firebase_config

\* the default names line 46 can generate (the random suffix may be empty)
DefaultNames == {"User-k3"}

InitErr == "Failed to initialize Firebase"
AuthErr == "Authentication failed"
FeedErr == "Failed to fetch messages"
SendErr == "Failed to send message"

ServerTimestamp == "serverTimestamp()"

RECURSIVE StringsUpTo(_)
StringsUpTo(n) ==
    IF n = 0 THEN {<<>>}
    ELSE LET S == StringsUpTo(n - 1)
         IN  S \cup {Append(s, c) : s \in {t \in S : Len(t) = n - 1}, c \in Chars}

Inputs == StringsUpTo(MaxLen)

\* a timestamp field: <<>> when the record has none, <<ms>> otherwise
Timestamps == {<<>>} \cup {<<t>> : t \in 0..MaxTs}

\* what doc.data() returns for the documents of the feed
DocData == [timestamp : Timestamps]

\* a document as the snapshot delivers it: its id and its data()
Docs == [id : DocIds, data : DocData]

\* what doc.data() returns for a document that a send of lines 121-126 wrote
\* and the server has stamped, and for one written without a senderName
SentData ==
    [senderId : UIDs, senderName : Names, text : {<<"a">>}, timestamp : {<<MaxTs>>}]
        \cup [senderId : UIDs, text : {<<"a">>}, timestamp : {<<MaxTs>>}]

SentDocs == [id : DocIds, data : SentData]

\* snapshots of one sent document
SentSnapshots == {<<d>> : d \in SentDocs}

\* snapshots: the documents of the collection in query order, ids unique
Snapshots ==
    {<<>>} \cup {<<d>> : d \in Docs}
           \cup {s \in Docs \X Docs : s[1].id # s[2].id}

VARIABLES
    config,         \* __firebase_config as the host page provides it
    token,          \* TRUE iff __initial_auth_token is defined
    storage,        \* localStorage item chatUserName (Null: no item)
    messages, newMessage, userId, userName, db, auth, loading, error,
    mounted,        \* "new": rendered, effects not yet run; "mounted"; "unmounted"
    authSubs,       \* active onAuthStateChanged subscriptions
    authUser,       \* the auth service's current user
    authInit,       \* TRUE iff the listener still awaits its first auth state
    signIns,        \* sign-in calls the auth callback is awaiting
    feedSubs,       \* active onSnapshot subscriptions
    feedFailed,     \* TRUE iff the active subscription has reported an error
    pendingWrites,  \* addDoc calls handleSendMessage is awaiting
    lastStep        \* what the step just taken was, if it was one of
                    \* handleSendMessage: "returned", "awaiting", "resolved",
                    \* "rejected"; "other" for every other step

vars == <<config, token, storage, messages, newMessage, userId, userName, db,
          auth, loading, error, mounted, authSubs, authUser, authInit,
          signIns, feedSubs, feedFailed, pendingWrites, lastStep>>

envVars   == <<config, token>>
stateVars == <<messages, newMessage, userId, userName, db, auth, loading, error>>
authVars  == <<authSubs, authUser, authInit, signIns>>
feedVars  == <<feedSubs, feedFailed>>
sendVars  == <<pendingWrites>>

\* ------------------------------------------------------------ pure helpers
\* JavaScript truthiness of a string-or-null value
Truthy(v) == v # Null /\ v # ""

IsSpace(c) == c = " "

RECURSIVE TrimStart(_)
TrimStart(s) ==
    IF s # <<>> /\ IsSpace(Head(s)) THEN TrimStart(Tail(s)) ELSE s

RECURSIVE TrimEnd(_)
TrimEnd(s) ==
    IF s # <<>> /\ IsSpace(s[Len(s)]) THEN TrimEnd(SubSeq(s, 1, Len(s) - 1)) ELSE s

\* a guard that compares the raw input with the empty string
TrimNothing(s) == s

\* String.prototype.trim
Trim(s) == TrimEnd(TrimStart(s))

\* a.timestamp?.toMillis() || 0: 0 for a missing timestamp and for a falsy result
MillisOrZero(m) ==
    IF m.timestamp = <<>> THEN 0
    ELSE IF m.timestamp[1] = 0 THEN 0 ELSE m.timestamp[1]

\* the comparator of line 96
Compare(a, b) == MillisOrZero(a) - MillisOrZero(b)

\* insert m behind every element that does not compare greater (stable)
RECURSIVE Insert(_, _)
Insert(m, s) ==
    IF s = <<>> THEN <<m>>
    ELSE IF Compare(Head(s), m) <= 0 THEN <<Head(s)>> \o Insert(m, Tail(s))
    ELSE <<m>> \o s

\* Array.prototype.sort with the comparator of line 96 (stable)
RECURSIVE SortMessages(_)
SortMessages(s) ==
    IF s = <<>> THEN <<>>
    ELSE Insert(s[Len(s)], SortMessages(SubSeq(s, 1, Len(s) - 1)))

\* { id: doc.id, ...doc.data() }: the fields of the data, a field of the
\* data named id included, and the id of the document for a data without one
Spread(doc) == doc.data @@ [id |-> doc.id]

\* fetchedMessages after the forEach over the snapshot
FetchedMessages(snap) == [i \in 1..Len(snap) |-> Spread(snap[i])]

RemoveAt(s, i) == SubSeq(s, 1, i - 1) \o SubSeq(s, i + 1, Len(s))

\* which of the three screens the component renders (lines 141-157)
View == IF loading THEN "loading"
        ELSE IF error # Null THEN "error"
        ELSE "ready"

\* the form and the name input exist only on the chat screen
Interactive == mounted = "mounted" /\ View = "ready"

\* msg.field: undefined, taken as Null, when the object has no such field
Get(msg, field) == IF field \in DOMAIN msg THEN msg[field] ELSE Null

\* a label that falls back to the sender id only for a missing name (??)
RenderMessageNullish(msg) ==
    [align |-> IF Get(msg, "senderId") = userId THEN "justify-end" ELSE "justify-start",
     label |-> IF Get(msg, "senderId") = userId THEN "You"
               ELSE IF Get(msg, "senderName") # Null THEN Get(msg, "senderName")
               ELSE Get(msg, "senderId")]

\* what lines 190-204 render for one message: the alignment class of the row
\* and the sender label, msg.senderName || msg.senderId for another sender
RenderMessage(msg) ==
    [align |-> IF Get(msg, "senderId") = userId THEN "justify-end" ELSE "justify-start",
     label |-> IF Get(msg, "senderId") = userId THEN "You"
               ELSE IF Truthy(Get(msg, "senderName")) THEN Get(msg, "senderName")
               ELSE Get(msg, "senderId")]

\* messages.map of line 189: the rows of the chat screen
Rendered == [i \in 1..Len(messages) |-> RenderMessage(messages[i])]

\* ------------------------------------------------------------------- Init
\* the first visit: nothing stored, no auth session, the initial render done
Init ==
    /\ config \in Configs
    /\ token \in BOOLEAN
    /\ storage = Null
    /\ messages = <<>>
    /\ newMessage = <<>>
    /\ userId = Null
    /\ userName = Null
    /\ db = Null
    /\ auth = Null
    /\ loading = TRUE
    /\ error = Null
    /\ mounted = "new"
    /\ authSubs = 0
    /\ authUser = Null
    /\ authInit = FALSE
    /\ signIns = <<>>
    /\ feedSubs = 0
    /\ feedFailed = FALSE
    /\ pendingWrites = <<>>
    /\ lastStep = "other"

\* ---------------------------------------------------------------- actions
\* an effect that returns no cleanup: the subscriptions it opened stay
ListenerCleanupMissing(n) == n

\* the cleanup of line 103, which React runs before the effect runs again and
\* at unmount: the run that subscribed unsubscribes, a run that did not
\* subscribe returned no cleanup
ListenerCleanup(n) == IF n > 0 THEN n - 1 ELSE 0

\* a guard that waits for the database handle only
ListenerGuardDbOnly(newDb, newUserId) == newDb # Null

\* the guard of line 83
ListenerGuard(newDb, newUserId) == newDb # Null /\ newUserId # Null

\* the effect of lines 82-105, run after a render in which db or userId
\* changed: the previous cleanup first, then a new subscription if both exist
MessageListenerEffect(newDb, newUserId) ==
    IF newDb = db /\ newUserId = userId
    THEN UNCHANGED feedVars
    ELSE /\ feedSubs' = ListenerCleanup(feedSubs)
                         + (IF ListenerGuard(newDb, newUserId) THEN 1 ELSE 0)
         /\ feedFailed' = FALSE

\* a check that lets the absent and the empty configuration through
ConfigRejectedParseOnly == config = "malformed"

\* lines 26-31: the configuration is absent (then {} is taken), has no keys, or
\* JSON.parse throws on it
ConfigRejected == config # "valid"

\* a bootstrap that stores the default name it generates
InitializeFirebasePersistsDefault ==
    /\ lastStep' = "other"
    /\ mounted = "new"
    /\ mounted' = "mounted"
    /\ IF ConfigRejected
       THEN /\ error' = InitErr
            /\ loading' = FALSE
            /\ UNCHANGED <<messages, newMessage, userId, userName, db, auth>>
            /\ UNCHANGED <<authVars, feedVars, storage>>
       ELSE /\ db' = "db"
            /\ auth' = "auth"
            /\ IF Truthy(storage)
               THEN userName' = storage /\ UNCHANGED storage
               ELSE userName' \in DefaultNames /\ storage' = userName'
            /\ authSubs' = authSubs + 1
            /\ authInit' = TRUE
            /\ MessageListenerEffect("db", userId)
            /\ UNCHANGED <<messages, newMessage, userId, loading, error>>
            /\ UNCHANGED <<authUser, signIns>>
    /\ UNCHANGED <<envVars, sendVars>>

\* initializeFirebase (lines 24-76), called by the mount effect; it has no
\* await of its own, so it runs to its end in one step
InitializeFirebase ==
    /\ lastStep' = "other"
    /\ mounted = "new"
    /\ mounted' = "mounted"
    /\ IF ConfigRejected
       THEN \* the catch of lines 71-75
            /\ error' = InitErr
            /\ loading' = FALSE
            /\ UNCHANGED <<messages, newMessage, userId, userName, db, auth>>
            /\ UNCHANGED <<authVars, feedVars>>
       ELSE /\ db' = "db"
            /\ auth' = "auth"
            /\ IF Truthy(storage)
               THEN userName' = storage
               ELSE userName' \in DefaultNames
            /\ authSubs' = authSubs + 1
            /\ authInit' = TRUE
            /\ MessageListenerEffect("db", userId)
            /\ UNCHANGED <<messages, newMessage, userId, loading, error>>
            /\ UNCHANGED <<authUser, signIns>>
    /\ UNCHANGED <<envVars, storage, sendVars>>

\* lines 51-53 and the render that follows; after unmount the setters of the
\* component do nothing
PublishUser(user) ==
    IF mounted = "mounted"
    THEN /\ userId' = user
         /\ loading' = FALSE
         /\ MessageListenerEffect(db, user)
    ELSE UNCHANGED <<userId, loading, feedVars>>

\* the onAuthStateChanged callback (lines 50-68) up to its await, called with
\* user
AuthCallback(user) ==
    IF user # Null
    THEN /\ PublishUser(user)
         /\ UNCHANGED signIns
    ELSE /\ signIns' = Append(signIns, IF token THEN "customToken" ELSE "anonymous")
         /\ UNCHANGED <<userId, loading, feedVars>>

\* the listener is told the auth state the service starts with
AuthStateChanged ==
    /\ lastStep' = "other"
    /\ authSubs > 0
    /\ authInit
    /\ authInit' = FALSE
    /\ AuthCallback(authUser)
    /\ UNCHANGED <<envVars, storage, messages, newMessage, userName, db, auth, error>>
    /\ UNCHANGED <<mounted, authSubs, authUser, sendVars>>

\* the uid a sign-in yields: the one the pre-issued token names, or any
SignInUids(kind) == IF kind = "customToken" THEN {TokenUid} ELSE UIDs

\* the awaited sign-in call resolves: the auth service has a user and tells
\* the listener, nothing more runs behind the await
SignInResolved ==
    \E uid \in UIDs :
        /\ lastStep' = "other"
        /\ signIns # <<>>
        /\ uid \in SignInUids(Head(signIns))
        /\ authUser' = uid
        /\ PublishUser(uid)
        /\ signIns' = Tail(signIns)
        /\ UNCHANGED <<envVars, storage, messages, newMessage, userName, db, auth, error>>
        /\ UNCHANGED <<mounted, authSubs, authInit, sendVars>>

\* a catch that records the error and forgets setLoading(false)
SignInRejectedStaysLoading ==
    /\ lastStep' = "other"
    /\ signIns # <<>>
    /\ signIns' = Tail(signIns)
    /\ IF mounted = "mounted"
       THEN error' = AuthErr
       ELSE UNCHANGED error
    /\ UNCHANGED <<envVars, storage, messages, newMessage, userId, userName, db, auth,
                   loading, mounted, authSubs, authUser, authInit, feedVars, sendVars>>

\* a catch that issues the failed sign-in call again
SignInRejectedRetries ==
    /\ lastStep' = "other"
    /\ signIns # <<>>
    /\ signIns' = Append(Tail(signIns), Head(signIns))
    /\ IF mounted = "mounted"
       THEN error' = AuthErr /\ loading' = FALSE
       ELSE UNCHANGED <<error, loading>>
    /\ UNCHANGED <<envVars, storage, messages, newMessage, userId, userName, db, auth>>
    /\ UNCHANGED <<mounted, authSubs, authUser, authInit, feedVars, sendVars>>

\* the awaited sign-in call rejects: the catch of lines 62-66
SignInRejected ==
    /\ lastStep' = "other"
    /\ signIns # <<>>
    /\ signIns' = Tail(signIns)
    /\ IF mounted = "mounted"
       THEN error' = AuthErr /\ loading' = FALSE
       ELSE UNCHANGED <<error, loading>>
    /\ UNCHANGED <<envVars, storage, messages, newMessage, userId, userName, db, auth>>
    /\ UNCHANGED <<mounted, authSubs, authUser, authInit, feedVars, sendVars>>

\* the auth service drops the current user (expiry, sign-out in another tab)
\* and tells the listener, unless the listener still awaits its first state
AuthServiceSignOut ==
    /\ lastStep' = "other"
    /\ authSubs > 0
    /\ authUser # Null
    /\ authUser' = Null
    /\ IF authInit
       THEN UNCHANGED <<userId, loading, feedVars, signIns>>
       ELSE AuthCallback(Null)
    /\ UNCHANGED <<envVars, storage, messages, newMessage, userName, db, auth, error>>
    /\ UNCHANGED <<mounted, authSubs, authInit, sendVars>>

\* a callback that adds the documents of the snapshot to the list it has
OnSnapshotMerges(snap) ==
    /\ lastStep' = "other"
    /\ feedSubs > 0
    /\ ~feedFailed
    /\ UNCHANGED <<envVars, storage, newMessage, userId, userName, db, auth,
                   loading, error, mounted, authVars, feedVars, sendVars>>
    /\ messages' = SortMessages(messages \o FetchedMessages(snap))

\* the onSnapshot callback of lines 90-97, called with snap
OnSnapshotOf(snap) ==
    /\ lastStep' = "other"
    /\ feedSubs > 0
    /\ ~feedFailed
    /\ UNCHANGED <<envVars, storage, newMessage, userId, userName, db, auth,
                   loading, error, mounted, authVars, feedVars, sendVars>>
    /\ messages' = SortMessages(FetchedMessages(snap))

\* the feed delivers a snapshot
OnSnapshot == \E snap \in Snapshots : OnSnapshotOf(snap)

\* an error callback that only logs
OnSnapshotErrorLogged ==
    /\ lastStep' = "other"
    /\ feedSubs > 0
    /\ ~feedFailed
    /\ feedFailed' = TRUE
    /\ UNCHANGED <<envVars, storage, stateVars, mounted, authVars, feedSubs, sendVars>>

\* an error callback that also empties the list
OnSnapshotErrorClearsMessages ==
    /\ lastStep' = "other"
    /\ feedSubs > 0
    /\ ~feedFailed
    /\ error' = FeedErr
    /\ messages' = <<>>
    /\ feedFailed' = TRUE
    /\ UNCHANGED <<envVars, storage, newMessage, userId, userName, db,
                   auth, loading, mounted, authVars, feedSubs, sendVars>>

\* the onSnapshot error callback of lines 98-101; the listener gets no more events
OnSnapshotError ==
    /\ lastStep' = "other"
    /\ feedSubs > 0
    /\ ~feedFailed
    /\ error' = FeedErr
    /\ feedFailed' = TRUE
    /\ UNCHANGED <<envVars, storage, messages, newMessage, userId, userName, db,
                   auth, loading, mounted, authVars, feedSubs, sendVars>>

\* onChange of the message input (line 221)
ChangeNewMessage ==
    \E s \in Inputs :
        /\ lastStep' = "other"
        /\ Interactive
        /\ newMessage' = s
        /\ UNCHANGED <<envVars, storage, messages, userId, userName, db, auth,
                       loading, error, mounted, authVars, feedVars, sendVars>>

\* a guard that does not look at the display name
SendGuardNoName == Trim(newMessage) = <<>> \/ db = Null \/ userId = Null

\* the guard of line 115
SendGuard == Trim(newMessage) = <<>> \/ db = Null \/ userId = Null \/ ~Truthy(userName)

\* a send that stamps the record with the clock of the client
HandleSendMessageClientClock ==
    /\ Interactive
    /\ IF SendGuard
       THEN /\ lastStep' = "returned"
            /\ UNCHANGED pendingWrites
       ELSE /\ Len(pendingWrites) < MaxPending
            /\ lastStep' = "awaiting"
            /\ pendingWrites' = Append(pendingWrites,
                   [senderId |-> userId, senderName |-> userName,
                    text |-> newMessage, timestamp |-> "Date.now()"])
    /\ UNCHANGED <<envVars, storage, stateVars, mounted, authVars, feedVars>>

\* handleSendMessage (lines 113-126) up to its await
HandleSendMessage ==
    /\ Interactive
    /\ IF SendGuard
       THEN /\ lastStep' = "returned"
            /\ UNCHANGED pendingWrites
       ELSE /\ Len(pendingWrites) < MaxPending
            /\ lastStep' = "awaiting"
            /\ pendingWrites' = Append(pendingWrites,
                   [senderId |-> userId, senderName |-> userName,
                    text |-> newMessage, timestamp |-> ServerTimestamp])
    /\ UNCHANGED <<envVars, storage, stateVars, mounted, authVars, feedVars>>

\* a completion that clears the input only if it still holds the sent text
AddDocResolvedKeepsEdits(i) ==
    /\ pendingWrites' = RemoveAt(pendingWrites, i)
    /\ lastStep' = "resolved"
    /\ IF mounted = "mounted" /\ newMessage = pendingWrites[i].text
       THEN newMessage' = <<>>
       ELSE UNCHANGED newMessage
    /\ UNCHANGED <<envVars, storage, messages, userId, userName, db, auth,
                   loading, error, mounted, authVars, feedVars>>

\* a completion that also resets the recorded error
AddDocResolvedClearsError(i) ==
    /\ pendingWrites' = RemoveAt(pendingWrites, i)
    /\ lastStep' = "resolved"
    /\ IF mounted = "mounted"
       THEN newMessage' = <<>> /\ error' = Null
       ELSE UNCHANGED <<newMessage, error>>
    /\ UNCHANGED <<envVars, storage, messages, userId, userName, db, auth,
                   loading, mounted, authVars, feedVars>>

\* the awaited addDoc of the i-th pending send resolves: line 127
AddDocResolved(i) ==
    /\ pendingWrites' = RemoveAt(pendingWrites, i)
    /\ lastStep' = "resolved"
    /\ IF mounted = "mounted"
       THEN newMessage' = <<>>
       ELSE UNCHANGED newMessage
    /\ UNCHANGED <<envVars, storage, messages, userId, userName, db, auth,
                   loading, error, mounted, authVars, feedVars>>

\* a catch that also clears the input
AddDocRejectedClearsInput(i) ==
    /\ pendingWrites' = RemoveAt(pendingWrites, i)
    /\ lastStep' = "rejected"
    /\ IF mounted = "mounted"
       THEN error' = SendErr /\ newMessage' = <<>>
       ELSE UNCHANGED <<error, newMessage>>
    /\ UNCHANGED <<envVars, storage, messages, userId, userName, db,
                   auth, loading, mounted, authVars, feedVars>>

\* the awaited addDoc of the i-th pending send rejects: the catch of lines 128-131
AddDocRejected(i) ==
    /\ pendingWrites' = RemoveAt(pendingWrites, i)
    /\ lastStep' = "rejected"
    /\ IF mounted = "mounted"
       THEN error' = SendErr
       ELSE UNCHANGED error
    /\ UNCHANGED <<envVars, storage, messages, newMessage, userId, userName, db,
                   auth, loading, mounted, authVars, feedVars>>

AddDocSettled ==
    \E i \in 1..Len(pendingWrites) : AddDocResolved(i) \/ AddDocRejected(i)

\* handleUserNameChange (lines 135-139)
HandleUserNameChange ==
    \E newName \in Names :
        /\ lastStep' = "other"
        /\ Interactive
        /\ userName' = newName
        /\ storage' = newName
        /\ UNCHANGED <<envVars, messages, newMessage, userId, db, auth, loading,
                       error, mounted, authVars, feedVars, sendVars>>

\* React unmounts the component: the cleanups the effects returned run (the
\* mount effect, line 78, returns nothing; the listener effect returns line
\* 103) and the state of the component is discarded
Unmount ==
    /\ lastStep' = "other"
    /\ mounted = "mounted"
    /\ mounted' = "unmounted"
    /\ feedSubs' = ListenerCleanup(feedSubs)
    /\ feedFailed' = FALSE
    /\ messages' = <<>>
    /\ newMessage' = <<>>
    /\ userId' = Null
    /\ userName' = Null
    /\ db' = Null
    /\ auth' = Null
    /\ loading' = TRUE
    /\ error' = Null
    /\ UNCHANGED <<envVars, storage, authVars, sendVars>>

\* the page is loaded again: only localStorage and the auth session survive
Reload ==
    /\ mounted # "new"
    /\ messages' = <<>>
    /\ newMessage' = <<>>
    /\ userId' = Null
    /\ userName' = Null
    /\ db' = Null
    /\ auth' = Null
    /\ loading' = TRUE
    /\ error' = Null
    /\ mounted' = "new"
    /\ authSubs' = 0
    /\ authInit' = FALSE
    /\ signIns' = <<>>
    /\ feedSubs' = 0
    /\ feedFailed' = FALSE
    /\ pendingWrites' = <<>>
    /\ lastStep' = "other"
    /\ UNCHANGED <<envVars, storage, authUser>>

Next ==
    \/ InitializeFirebase
    \/ AuthStateChanged
    \/ SignInResolved
    \/ SignInRejected
    \/ AuthServiceSignOut
    \/ OnSnapshot
    \/ OnSnapshotError
    \/ ChangeNewMessage
    \/ HandleSendMessage
    \/ AddDocSettled
    \/ HandleUserNameChange
    \/ Unmount
    \/ Reload

Spec == Init /\ [][Next]_vars

\* the fairness the event loop gives: a pending auth notification is
\* delivered, and an awaited sign-in call returns
FairSpec ==
    /\ Spec
    /\ WF_vars(AuthStateChanged)
    /\ WF_vars(SignInResolved \/ SignInRejected)

\* the chat screen as a signed-in user first sees it: the feed is subscribed
\* and has delivered nothing yet
ChatInit ==
    /\ config = "valid"
    /\ token = FALSE
    /\ storage = Null
    /\ messages = <<>>
    /\ newMessage = <<>>
    /\ userId \in UIDs
    /\ userName \in DefaultNames
    /\ db = "db"
    /\ auth = "auth"
    /\ loading = FALSE
    /\ error = Null
    /\ mounted = "mounted"
    /\ authSubs = 1
    /\ authUser = userId
    /\ authInit = FALSE
    /\ signIns = <<>>
    /\ feedSubs = 1
    /\ feedFailed = FALSE
    /\ pendingWrites = <<>>
    /\ lastStep = "other"

\* the feed delivers a snapshot of one sent document
OnSentSnapshot == \E snap \in SentSnapshots : OnSnapshotOf(snap)

\* the chat screen while signed in: snapshots arrive, the user types
ChatNext ==
    \/ OnSnapshot
    \/ OnSentSnapshot
    \/ ChangeNewMessage
    \/ HandleUserNameChange

ChatSpec == ChatInit /\ [][ChatNext]_vars

TypeOK ==
    /\ newMessage \in Inputs
    /\ userId \in {Null} \cup UIDs
    /\ userName \in {Null} \cup Names \cup DefaultNames
    /\ storage \in {Null} \cup Names
    /\ loading \in BOOLEAN
    /\ Len(pendingWrites) <= MaxPending
    /\ Len(signIns) <= 1
    /\ authSubs \in 0..1
    /\ feedSubs \in 0..1

\* ------------------------------------------------------------------ claims
HasTimestamp(m) == m.timestamp # <<>>

\* a text of whitespace only (the empty text included)
Blank(s) == \A i \in 1..Len(s) : IsSpace(s[i])

BadConfig == config \in {"undefined", "empty"}

\* C1: the published message list is sorted ascending by timestamp, and every
\* record without a timestamp stands before every record with one.
C1_SortedMissingFirst ==
    \A i, j \in 1..Len(messages) :
        i < j =>
            /\ (HasTimestamp(messages[i]) /\ HasTimestamp(messages[j])
                    => messages[i].timestamp[1] <= messages[j].timestamp[1])
            /\ ~(HasTimestamp(messages[i]) /\ ~HasTimestamp(messages[j]))

\* C2: a submit while the input is empty or whitespace-only issues no write.
C2_BlankNeverWrites ==
    [][(Blank(newMessage) /\ HandleSendMessage)
            => pendingWrites' = pendingWrites]_vars

\* a whitespace-only, non-empty input was submitted with everything else
\* available, and the handler returned
C2_Witness ==
    /\ lastStep = "returned"
    /\ newMessage # <<>>
    /\ Blank(newMessage)
    /\ db # Null /\ userId # Null /\ Truthy(userName)
    /\ pendingWrites = <<>>

\* C3: a submit while the backend handle, the session identity or the display
\* name is unavailable (null or the empty string) issues no write and leaves
\* the input as it was.
C3_UnavailableNoWrite ==
    [][((db = Null \/ userId = Null \/ userName = Null \/ userName = "")
            /\ HandleSendMessage)
            => (pendingWrites' = pendingWrites /\ newMessage' = newMessage)]_vars

\* a non-blank input was submitted after the name was edited to the empty string
C3_Witness ==
    /\ lastStep = "returned"
    /\ ~Blank(newMessage)
    /\ userName = ""
    /\ db # Null /\ userId # Null

\* C4: right after the addDoc of a send resolved, the input of the mounted
\* component is empty, whatever was typed or submitted while it was pending.
C4_SuccessClearsInput ==
    (lastStep = "resolved" /\ mounted = "mounted") => newMessage = <<>>

\* a write resolved while a later submit of the same form is still in flight
C4_Witness ==
    /\ lastStep = "resolved"
    /\ mounted = "mounted"
    /\ pendingWrites # <<>>
    /\ newMessage = <<>>

C7_LoadsLastSetName ==
    /\ [][HandleUserNameChange => storage' = userName']_vars
    /\ [][(~HandleUserNameChange) => storage' = storage]_vars
    /\ [][(InitializeFirebase /\ ~ConfigRejected /\ storage # Null)
            => userName' = storage]_vars

\* C8: with the configuration absent or {} the view goes from loading straight
\* to the error screen and is never ready, and no auth subscription, no feed
\* subscription, no sign-in and no write is ever started.
C8_NoConfigIsFatal ==
    /\ [](BadConfig =>
            /\ View # "ready"
            /\ authSubs = 0 /\ ~authInit /\ signIns = <<>>
            /\ feedSubs = 0
            /\ pendingWrites = <<>>
            /\ db = Null /\ auth = Null /\ userId = Null)
    /\ [][(BadConfig /\ InitializeFirebase)
            => (View = "loading" /\ View' = "error" /\ error' = InitErr)]_vars

\* the empty configuration has led to the error screen
C8_Witness ==
    /\ config = "empty"
    /\ mounted = "mounted"
    /\ View = "error"
    /\ error = InitErr

\* C9: with a valid configuration the mounted component eventually leaves the
\* loading screen; it leaves it to the chat screen with the identity published
\* when the auth service has a user, and every rejected sign-in publishes
\* AuthErr and ends loading.
C9_LeavesLoading ==
    /\ (config = "valid" /\ mounted = "mounted")
            ~> (~loading \/ mounted # "mounted")
    /\ [][(loading /\ mounted = "mounted" /\ authUser' # Null
                /\ (AuthStateChanged \/ SignInResolved))
            => (userId' = authUser' /\ View' = "ready")]_vars
    /\ [][(mounted = "mounted" /\ SignInRejected)
            => (~loading' /\ error' = AuthErr)]_vars
    /\ [](config = "valid" /\ ~loading => userId # Null \/ error = AuthErr)

\* a rejected sign-in has ended loading with AuthErr and no identity
C9_Witness ==
    /\ config = "valid"
    /\ mounted = "mounted"
    /\ ~loading
    /\ error = AuthErr
    /\ userId = Null

\* C10: after unmount neither subscription is active, and while the component
\* lives there is at most one auth-state subscription.
C10_ReleasedOnUnmount ==
    /\ authSubs <= 1
    /\ mounted = "unmounted" => (authSubs = 0 /\ feedSubs = 0)


\* C11: at most one message-feed subscription is active in every reachable
\* state, and a step in which the session identity changes from one user to
\* another leaves exactly one subscription, a new one that has reported no
\* error: the previous one was released before it was opened
C11_OneFeedSubscription ==
    /\ [](feedSubs <= 1)
    /\ [][(userId # Null /\ userId' # Null /\ userId' # userId)
             => (feedSubs' = 1 /\ ~feedFailed')]_vars

\* the identity changed while a send of the earlier identity was in flight,
\* and the feed is subscribed for the new identity
C11_Witness ==
    /\ mounted = "mounted"
    /\ feedSubs = 1
    /\ userId # Null
    /\ \E i \in 1..Len(pendingWrites) : pendingWrites[i].senderId # userId

\* C12: the number of feed subscriptions grows only in a step that ends with
\* both the database handle and the user id set, and while either is missing
\* no feed subscription is active and the message list is empty
C12_FeedNeedsDbAndUser ==
    /\ []((db = Null \/ userId = Null) => (feedSubs = 0 /\ messages = <<>>))
    /\ [][feedSubs' > feedSubs => (db' # Null /\ userId' # Null)]_vars

\* the database handle exists, the user id does not yet: nothing is subscribed
C12_Witness ==
    /\ mounted = "mounted"
    /\ db # Null
    /\ userId = Null
    /\ feedSubs = 0
    /\ messages = <<>>

C14_SendWritesOneRecord ==
    [][(/\ HandleSendMessage
        /\ ~Blank(newMessage)
        /\ db # Null
        /\ userId # Null
        /\ userName \notin {Null, ""})
         => pendingWrites' = pendingWrites \o
                <<[senderId |-> userId, senderName |-> userName,
                   text |-> newMessage, timestamp |-> ServerTimestamp]>>]_vars

\* a send was just submitted: the last write in flight carries the current
\* user id, display name and input text
C14_Witness ==
    /\ lastStep = "awaiting"
    /\ pendingWrites # <<>>
    /\ LET w == pendingWrites[Len(pendingWrites)]
       IN  /\ w.senderId = userId
           /\ w.senderName = userName
           /\ w.text = newMessage
           /\ w.timestamp = ServerTimestamp

\* the steps in which the auth-state callback of lines 50-68 runs, up to its
\* await or behind it
AuthCallbackStep ==
    AuthStateChanged \/ SignInResolved \/ SignInRejected \/ AuthServiceSignOut

\* the steps in which a callback of the feed subscription (lines 90-101) runs
FeedCallbackStep == OnSnapshot \/ OnSnapshotError

\* C15: no state variable of the component is written by both an auth-state
\* callback and a feed callback: in no reachable state can a callback of
\* each kind be delivered next and change the same variable, so the two
\* commute
C15_DisjointSlices ==
    /\ ~(/\ ENABLED (AuthCallbackStep /\ messages' # messages)
         /\ ENABLED (FeedCallbackStep /\ messages' # messages))
    /\ ~(/\ ENABLED (AuthCallbackStep /\ userId' # userId)
         /\ ENABLED (FeedCallbackStep /\ userId' # userId))
    /\ ~(/\ ENABLED (AuthCallbackStep /\ loading' # loading)
         /\ ENABLED (FeedCallbackStep /\ loading' # loading))
    /\ ~(/\ ENABLED (AuthCallbackStep /\ error' # error)
         /\ ENABLED (FeedCallbackStep /\ error' # error))

\* C16: a bootstrap with a valid configuration that finds no stored name sets
\* the display name to a generated default User-<suffix> and leaves local
\* storage as it was; the stored item changes only in a step in which the
\* user edits the name on the chat screen, and then to the edited name
C16_DefaultNameNotStored ==
    /\ [][(config = "valid" /\ storage = Null /\ mounted = "new" /\ mounted' = "mounted")
            => (userName' \in DefaultNames /\ storage' = Null)]_vars
    /\ [][storage' # storage
            => (Interactive /\ mounted' = mounted /\ userName' = storage'
                /\ storage' \in Names)]_vars

\* the component shows a generated default name and nothing is stored
C16_Witness ==
    /\ mounted = "mounted"
    /\ userName \in DefaultNames
    /\ storage = Null
    /\ View = "ready"

\* C17: on the chat screen every message whose senderId is the user id of
\* the viewer is rendered right-aligned with the label "You"; every other
\* message is rendered left-aligned, labelled with its senderName, or with
\* its senderId when it has no senderName or an empty one
C17_LabelAndAlignment ==
    Interactive =>
        \A i \in 1..Len(messages) :
            LET sender == Get(messages[i], "senderId")
                named  == /\ "senderName" \in DOMAIN messages[i]
                          /\ messages[i].senderName \notin {Null, ""}
            IN  /\ sender = userId
                      => Rendered[i] = [align |-> "justify-end", label |-> "You"]
                /\ (sender # userId /\ named)
                      => Rendered[i] = [align |-> "justify-start",
                                        label |-> messages[i].senderName]
                /\ (sender # userId /\ ~named)
                      => Rendered[i] = [align |-> "justify-start", label |-> sender]

\* the chat screen shows a message of another sender, whose senderName is
\* the empty string, under the label of its senderId
C17_Witness ==
    /\ Interactive
    /\ \E i \in 1..Len(messages) :
          /\ "senderName" \in DOMAIN messages[i]
          /\ messages[i].senderName = ""
          /\ messages[i].senderId # userId
          /\ Rendered[i].label = messages[i].senderId

\* list holds the documents of snap, each once, with the id of the document
\* and the fields of its data, and nothing else
HoldsExactly(list, snap) ==
    /\ Len(list) = Len(snap)
    /\ \A k \in 1..Len(snap) :
          Cardinality({i \in 1..Len(list) :
              /\ list[i].id = snap[k].id
              /\ DOMAIN list[i] = {"id"} \cup DOMAIN snap[k].data
              /\ \A f \in DOMAIN snap[k].data : list[i][f] = snap[k].data[f]}) = 1

\* C18: after the snapshot callback has run for a snapshot, the message
\* list is the documents of that snapshot, each once and with its id;
\* whatever the list held before, documents of earlier snapshots included,
\* is not kept
C18_ListIsLatestSnapshot ==
    [][\A snap \in Snapshots \cup SentSnapshots :
         OnSnapshotOf(snap) => HoldsExactly(messages', snap)]_vars

\* the feed is live and the list holds the two documents of a snapshot
C18_Witness ==
    /\ mounted = "mounted"
    /\ feedSubs = 1
    /\ ~feedFailed
    /\ Len(messages) = 2
    /\ messages[1].id # messages[2].id

\* C19: while the component stays mounted, an error once recorded is never
\* reset to none (another error may replace it) and loading, once false,
\* never becomes true again; an error is never recorded while loading
\* stays true, so whenever an error is recorded the error screen is shown
C19_ErrorAbsorbing ==
    /\ [][(mounted = "mounted" /\ mounted' = "mounted" /\ error # Null)
            => error' # Null]_vars
    /\ [][(mounted = "mounted" /\ mounted' = "mounted" /\ ~loading)
            => ~loading']_vars
    /\ []((mounted = "mounted" /\ error # Null) => View = "error")

\* a send resolved after an error had been recorded: the error is still
\* there and the error screen is shown
C19_Witness ==
    /\ mounted = "mounted"
    /\ lastStep = "resolved"
    /\ error # Null
    /\ ~loading
    /\ View = "error"

\* C20: nothing that failed is issued again by the program itself. A
\* rejected sign-in leaves one call fewer in flight, and a sign-in call is
\* issued only in a step in which the auth listener is told that there is no
\* user; a feed error leaves the failed subscription in place, and a failed
\* subscription is replaced only in a step that changes the user id or the
\* database handle; a rejected write leaves one write fewer in flight, and a
\* write is issued only by a submit on the chat screen
C20_NoAutomaticRetry ==
    /\ [][SignInRejected => Len(signIns') = Len(signIns) - 1]_vars
    /\ [][Len(signIns') > Len(signIns)
            => (authUser' = Null /\ ((authInit /\ ~authInit') \/ authUser # Null))]_vars
    /\ [][OnSnapshotError => (feedSubs' = feedSubs /\ feedFailed')]_vars
    /\ [][(feedFailed /\ ~feedFailed' /\ feedSubs' > 0)
            => (userId' # userId \/ db' # db)]_vars
    /\ [][lastStep' = "rejected" => Len(pendingWrites') = Len(pendingWrites) - 1]_vars
    /\ [][Len(pendingWrites') > Len(pendingWrites)
            => (Interactive /\ lastStep' = "awaiting")]_vars

\* a write was rejected and a sign-in before it: nothing is in flight
C20_Witness ==
    /\ mounted = "mounted"
    /\ lastStep = "rejected"
    /\ error = SendErr
    /\ pendingWrites = <<>>
    /\ signIns = <<>>
    /\ authUser = Null
====
